---- MODULE Spec2Model ----
(***************************************************************************)
(* AutoCaptureSystem (phase3_hamster_tracking/data_collection/             *)
(* auto_capture_system.py): the trigger queue, the capture worker thread,  *)
(* the motion monitor thread, start()/stop() and the persistence of one    *)
(* capture (image + JSON sidecar), with the statistics and the capture     *)
(* history.                                                                *)
(*                                                                         *)
(* Time is a datetime [s, us] (seconds, microseconds).  Quality scores are *)
(* in hundredths (0.8 is 80).  Strings built by the program (isoformat,    *)
(* file names) are tuples of their parts.                                  *)
(***************************************************************************)
EXTENDS Integers, Sequences, FiniteSets, TLC

VARIABLES
    now,                    \* the wall clock read by datetime.now()
    ticks,                  \* number of clock advances so far
    is_running,             \* self.is_running
    stream,                 \* self.stream: "None" or "running"
    stop_pc,                \* position of the caller inside stop()
    lighting_detector,      \* self.lighting_detector: "None" or "detector"
    start_outcome,          \* how the last start() call ended
    wpc,                    \* capture worker threads: position of each
    wreq,                   \* the request a worker holds: <<>> or <<request>>
    mpc,                    \* motion monitor threads: position of each
    capture_queue,          \* self.capture_queue
    last_scheduled_capture, \* self.last_scheduled_capture
    last_motion_capture,    \* self.last_motion_capture
    stats,                  \* self.stats (the counters)
    capture_history,        \* self.capture_history
    images,                 \* image files in storage_paths['raw_frames']
    sidecars,               \* .json files there: [path, content]
    issued,                 \* history: every request accepted by the queue
    outcome,                \* history: how each request ended
    assessed,               \* history: <<request, quality score>> assessed
    dequeues,               \* history: times each request left the queue
    imageWrites,            \* history: image files written per request
    sidecarWrites,          \* history: sidecars written per request
    callback_ids,           \* history: requests on_capture_callback saw
    queue_full_warnings,    \* history: "queue is full" warnings logged
    raw_frames,             \* the hamster_* files of storage_paths['raw_frames']
    glob_entries,           \* cleanup_old_files: entries of the glob left to visit
    sweep_pc,               \* cleanup_old_files: position of the caller
    deleted_count,          \* cleanup_old_files: local deleted_count
    listed,                 \* history: the files the glob of the sweep listed
    unlink_failed,          \* history: files whose unlink raised
    vanished,               \* history: files removed by somebody else
    md_now,                 \* MotionDetector: datetime.now(), in seconds
    frames_seen,            \* MotionDetector: detect_motion calls so far
    current_activity_state, \* MotionDetector.current_activity_state
    last_activity_change,   \* MotionDetector.last_activity_change
    motion_history,         \* MotionDetector.motion_history
    motion_stats,           \* MotionDetector.stats (the counters)
    frame,                  \* the contours found in the last frame
    motion_events,          \* what the last detect_motion call returned
    raised_at,              \* history: where the last call raised, or "none"
    notified,               \* history: state the last call passed to on_activity_change
    candidate,              \* history: new_state of the last evaluation
    candidate_since,        \* history: since when it has been the candidate
    hour,                   \* LightingModeDetector: datetime.now().hour
    mode_history,           \* LightingModeDetector.mode_history
    confidence_history,     \* LightingModeDetector.confidence_history
    detection_stats,        \* LightingModeDetector.detection_stats (counters)
    lighting_calls,         \* LightingModeDetector: detect_mode calls so far
    lighting_frame,         \* the frame of the last detect_mode call
    detected,               \* what the last detect_mode call returned
    simple_frame,           \* the frame of the last SimpleLightingDetector call
    simple_detected,        \* what that call returned
    background_frames,      \* DataQualityAssessor.background_frames
    total_evaluated,        \* DataQualityAssessor.stats.total_evaluated
    evaluated_image,        \* the image of the last evaluate_image_quality call
    overall_score,          \* QualityMetrics.overall_score of the last call
    quality_level           \* QualityMetrics.quality_level of the last call

vars == <<now, ticks, is_running, stream, stop_pc, lighting_detector,
          start_outcome, wpc, wreq, mpc,
          capture_queue, last_scheduled_capture, last_motion_capture, stats,
          capture_history, images, sidecars, issued, outcome, assessed,
          dequeues, imageWrites, sidecarWrites, callback_ids,
          queue_full_warnings, raw_frames, glob_entries, sweep_pc,
          deleted_count, listed, unlink_failed, vanished, md_now,
          frames_seen, current_activity_state, last_activity_change,
          motion_history, motion_stats, frame, motion_events, raised_at,
          notified, candidate, candidate_since, hour, mode_history,
          confidence_history, detection_stats, lighting_calls, lighting_frame,
          detected, simple_frame, simple_detected, background_frames, total_evaluated, evaluated_image,
          overall_score, quality_level>>

\* groups of variables, for the UNCHANGED clauses
clock == <<now, ticks>>
lifecycle == <<is_running, stream, stop_pc, lighting_detector, start_outcome>>
threads == <<wpc, wreq, mpc>>
schedule == <<last_scheduled_capture, last_motion_capture>>
queueing == <<capture_queue, issued, outcome, queue_full_warnings>>
results == <<stats, capture_history, images, sidecars, assessed, dequeues,
             imageWrites, sidecarWrites, callback_ids>>

\* the state of AutoCaptureSystem and of its threads
orchestrator == <<clock, lifecycle, threads, schedule, queueing, results>>
\* the state of a retention sweep (cleanup_old_files)
retention == <<raw_frames, glob_entries, sweep_pc, deleted_count, listed,
               unlink_failed, vanished>>
\* the state of a MotionDetector
detector == <<md_now, frames_seen, current_activity_state, last_activity_change,
            motion_history, motion_stats, frame, motion_events, raised_at,
            notified, candidate, candidate_since>>
\* the state of a LightingModeDetector
lighting == <<hour, mode_history, confidence_history, detection_stats,
              lighting_calls, lighting_frame, detected, simple_frame,
              simple_detected>>
\* the state of a DataQualityAssessor
quality == <<background_frames, total_evaluated, evaluated_image,
             overall_score, quality_level>>
\* what the actions of AutoCaptureSystem's session leave alone
components == <<retention, detector, lighting, quality>>

(***************************************************************************)
(* Bounds of the model.                                                    *)
(***************************************************************************)
MaxRequests == 2
MaxTicks == 2
MaxThreads == 2

(***************************************************************************)
(* Constants of the program.                                               *)
(***************************************************************************)
maxsize == 0
motion_cooldown == 5
interval_minutes == 60
min_quality == 80

None == "None"

\* Optional[datetime]: None is the empty tuple, a datetime d is <<d>>
NoTime == <<>>
At(d) == <<d>>
\* one more than a session issues: a restarted system issues a third request
RequestIds == 1..(MaxRequests + 1)
Threads == 1..MaxThreads


(***************************************************************************)
(* datetime and timedelta.                                                 *)
(***************************************************************************)
Datetime(s, us) == [s |-> s, us |-> us]

\* the amounts by which the clock advances in the model
ClockSteps == {Datetime(0, 400), Datetime(5, 0)}

\* datetime + timedelta
Plus(a, d) ==
    LET u == a.us + d.us
    IN  [s |-> a.s + d.s + (u \div 1000000), us |-> u % 1000000]

\* datetime - datetime: a timedelta, normalised so that 0 <= us < 10^6
Minus(a, b) ==
    LET u == a.us - b.us
    IN  IF u >= 0 THEN [s |-> a.s - b.s, us |-> u]
                  ELSE [s |-> a.s - b.s - 1, us |-> u + 1000000]

\* timedelta.total_seconds() > k and >= k, for a whole number k of seconds
total_seconds_gt(d, k) == d.s > k \/ (d.s = k /\ d.us > 0)
total_seconds_ge(d, k) == d.s >= k

\* datetime.isoformat(): the fraction is left out when microsecond is 0
isoformat(d) == IF d.us = 0 THEN <<d.s>> ELSE <<d.s, ".", d.us>>

\* datetime.fromisoformat(), the reader of a sidecar's timestamp
fromisoformat(str) ==
    IF Len(str) = 1 THEN [s |-> str[1], us |-> 0]
                    ELSE [s |-> str[1], us |-> str[3]]

(***************************************************************************)
(* Caller metadata and the sidecar's JSON object: sets of <<key, value>>   *)
(* with one pair per key.                                                  *)
(***************************************************************************)
Keys(obj) == {p[1] : p \in obj}
Field(obj, key) == LET p == CHOOSE p \in obj : p[1] = key IN p[2]

\* {**base, **extra}: the keys of `extra` replace those of `base`
DictMerge(base, extra) ==
    extra \cup {p \in base : p[1] \notin Keys(extra)}

\* trigger_capture as its callers outside the class use it:
\* trigger type and metadata
ExternalCalls ==
    { [trigger_type |-> "manual", metadata |-> {<<"test", "True">>}],
      [trigger_type |-> "activity",
       metadata |-> {<<"activity_state", "active">>}],
      [trigger_type |-> "manual",
       metadata |-> {<<"trigger_type", "spoofed">>,
                     <<"timestamp", <<999, ".", 1>>>>}] }

\* quality scores _assess_image_quality returns, in hundredths
Qualities == {79, 80}

(***************************************************************************)
(* queue.Queue                                                             *)
(***************************************************************************)
\* put at the head instead of the tail
PutFirst(q, item) == <<item>> \o q

\* get that leaves the request in the queue
AfterGetKeeps(q) == q

\* Queue.put raises Full only when maxsize > 0 and qsize() >= maxsize
Full(q) == maxsize > 0 /\ Len(q) >= maxsize

Put(q, item) == Append(q, item)

\* what Queue.get leaves in the queue
AfterGet(q) == Tail(q)

(***************************************************************************)
(* Statistics, file names, results.                                        *)
(***************************************************************************)
UpdateStats(st, success, trigger_type) ==
    [ total_captures |-> st.total_captures + 1,
      successful_captures |->
          IF success THEN st.successful_captures + 1
                     ELSE st.successful_captures,
      failed_captures |->
          IF success THEN st.failed_captures ELSE st.failed_captures + 1,
      motion_triggers |->
          IF trigger_type = "motion" THEN st.motion_triggers + 1
                                     ELSE st.motion_triggers,
      scheduled_triggers |->
          IF trigger_type = "scheduled" THEN st.scheduled_triggers + 1
                                        ELSE st.scheduled_triggers,
      manual_triggers |->
          IF trigger_type = "manual" THEN st.manual_triggers + 1
                                     ELSE st.manual_triggers ]

\* "hamster_{trigger_type}_{%Y%m%d_%H%M%S_%f cut to milliseconds}.jpg"
GenerateFilename(timestamp, trigger_type) ==
    <<"hamster", trigger_type, timestamp.s, timestamp.us \div 1000>>

\* file_path.with_suffix('.json')
MetadataPath(filename) == <<filename, ".json">>

CaptureMetadata(request, quality_score) ==
    DictMerge({ <<"trigger_type", request.trigger_type>>,
                <<"timestamp", isoformat(request.timestamp)>>,
                <<"quality_score", quality_score>>,
                <<"lighting_mode", None>> },
              request.metadata)

SuccessResult(request, quality_score) ==
    [ id |-> request.id,
      timestamp |-> request.timestamp,
      filename |-> GenerateFilename(request.timestamp, request.trigger_type),
      trigger_type |-> request.trigger_type,
      quality_score |-> quality_score,
      success |-> TRUE,
      error_message |-> None ]

ErrorResult(request, message) ==
    [ id |-> request.id,
      timestamp |-> request.timestamp,
      filename |-> <<>>,
      trigger_type |-> request.trigger_type,
      quality_score |-> 0,
      success |-> FALSE,
      error_message |-> message ]

\* the comparison the wrong way round
BelowMinimumInverted(quality_score) == quality_score > min_quality

\* the comparison of the quality gate
BelowMinimum(quality_score) == quality_score < min_quality


(***************************************************************************)
(* The state after AutoCaptureSystem.__init__.                             *)
(***************************************************************************)
Constructed ==
    /\ now = Datetime(0, 0)
    /\ ticks = 0
    /\ is_running = FALSE
    /\ stream = None
    /\ stop_pc = "idle"
    /\ lighting_detector = None
    /\ start_outcome = "none"
    /\ wpc = [t \in Threads |-> "unstarted"]
    /\ wreq = [t \in Threads |-> <<>>]
    /\ mpc = [t \in Threads |-> "unstarted"]
    /\ capture_queue = <<>>
    /\ last_scheduled_capture = NoTime
    /\ last_motion_capture = NoTime
    /\ stats = [ total_captures |-> 0, successful_captures |-> 0,
                 failed_captures |-> 0, motion_triggers |-> 0,
                 scheduled_triggers |-> 0, manual_triggers |-> 0 ]
    /\ capture_history = <<>>
    /\ images = {}
    /\ sidecars = {}
    /\ issued = <<>>
    /\ outcome = [i \in RequestIds |-> "none"]
    /\ assessed = {}
    /\ dequeues = [i \in RequestIds |-> 0]
    /\ imageWrites = [i \in RequestIds |-> 0]
    /\ sidecarWrites = [i \in RequestIds |-> 0]
    /\ callback_ids = {}
    /\ queue_full_warnings = 0

\* no retention sweep under way, over an empty directory
NoSweep ==
    /\ raw_frames = {}
    /\ glob_entries = <<>>
    /\ sweep_pc = "idle"
    /\ deleted_count = 0
    /\ listed = {}
    /\ unlink_failed = {}
    /\ vanished = {}

\* the state after MotionDetector.__init__
NewMotionDetector ==
    /\ md_now = 0
    /\ frames_seen = 0
    /\ current_activity_state = "unknown"
    /\ last_activity_change = 0
    /\ motion_history = <<>>
    /\ motion_stats = [ total_detections |-> 0, valid_detections |-> 0,
                        active_periods |-> 0, rest_periods |-> 0 ]
    /\ frame = <<>>
    /\ motion_events = <<>>
    /\ raised_at = "none"
    /\ notified = "none"
    /\ candidate = "none"
    /\ candidate_since = 0

\* the state after LightingModeDetector.__init__
NewLightingDetector ==
    /\ mode_history = <<>>
    /\ confidence_history = <<>>
    /\ detection_stats = [ total_frames |-> 0, ir_frames |-> 0,
                           color_frames |-> 0, low_confidence_frames |-> 0 ]
    /\ lighting_calls = 0
    /\ lighting_frame = <<>>
    /\ detected = <<>>
    /\ simple_frame = <<>>
    /\ simple_detected = <<>>

\* the state after DataQualityAssessor.__init__
NewQualityAssessor ==
    /\ background_frames = <<>>
    /\ total_evaluated = 0
    /\ evaluated_image = <<>>
    /\ overall_score = <<>>
    /\ quality_level = None

Init ==
    /\ Constructed
    /\ NoSweep
    /\ NewMotionDetector
    /\ NewLightingDetector
    /\ hour = 0
    /\ NewQualityAssessor

\* the clock advances
Tick ==
    /\ ticks < MaxTicks
    /\ \E d \in ClockSteps : now' = Plus(now, d)
    /\ ticks' = ticks + 1
    /\ UNCHANGED <<lifecycle, threads, schedule, queueing, results>>
    /\ UNCHANGED components

(***************************************************************************)
(* trigger_capture: builds the request and puts it on the queue.  The      *)
(* other variables are left to the calling action.                         *)
(***************************************************************************)
TriggerCapture(trigger_type, metadata) ==
    LET capture_request ==
            [ id |-> Len(issued) + 1,
              trigger_type |-> trigger_type,
              timestamp |-> now,
              metadata |-> metadata ]
    IN  IF Full(capture_queue)
        THEN /\ queue_full_warnings' = queue_full_warnings + 1
             /\ UNCHANGED <<capture_queue, issued, outcome>>
        ELSE /\ capture_queue' = Put(capture_queue, capture_request)
             /\ issued' = Append(issued, capture_request)
             /\ outcome' = [outcome EXCEPT ![capture_request.id] = "queued"]
             /\ UNCHANGED queue_full_warnings

\* a caller outside the class triggers a capture while the system runs:
\* one of `calls`, as long as fewer than `budget` requests were issued
ExternalTriggerOf(calls, budget) ==
    /\ is_running
    /\ Len(issued) < budget
    /\ \E call \in calls :
           TriggerCapture(call.trigger_type, call.metadata)
    /\ UNCHANGED <<clock, lifecycle, threads, schedule, results>>
    /\ UNCHANGED components

ExternalTrigger == ExternalTriggerOf(ExternalCalls, MaxRequests)

(***************************************************************************)
(* start() and stop()                                                      *)
(***************************************************************************)
\* start() without its guard
AlreadyRunningIgnored == FALSE

\* the guard of start(): "already running"
AlreadyRunning == is_running

\* the slot of the threads the next successful start() creates
NewThread ==
    CHOOSE t \in Threads :
        /\ wpc[t] = "unstarted"
        /\ \A u \in Threads : u < t => wpc[u] # "unstarted"

\* LightingModeDetector() raising is caught inside start(): the detector is
\* left None and start() goes on
Start ==
    /\ stop_pc = "idle"
    /\ IF AlreadyRunning
       THEN /\ start_outcome' = "returned"
            /\ UNCHANGED <<is_running, stream, lighting_detector, wpc, mpc>>
       ELSE \E started \in BOOLEAN, detector_built \in BOOLEAN :
              IF started
              THEN /\ \E t \in Threads : wpc[t] = "unstarted"
                   /\ stream' = "running"
                   /\ lighting_detector' =
                        IF detector_built THEN "detector" ELSE None
                   /\ is_running' = TRUE
                   /\ wpc' = [wpc EXCEPT ![NewThread] = "loop"]
                   /\ mpc' = [mpc EXCEPT ![NewThread] = "loop"]
                   /\ start_outcome' = "returned"
              ELSE \* start_stream() returned False: stop(), then raise
                   /\ is_running' = FALSE
                   /\ stream' = None
                   /\ start_outcome' = "raised"
                   /\ UNCHANGED <<lighting_detector, wpc, mpc>>
    /\ UNCHANGED <<clock, stop_pc, wreq, schedule, queueing, results>>
    /\ UNCHANGED components

\* stop() up to the joins: the flag is cleared
StopBegin ==
    /\ stop_pc = "idle"
    /\ is_running
    /\ is_running' = FALSE
    /\ stop_pc' = "joining"
    /\ UNCHANGED <<clock, stream, lighting_detector, start_outcome, threads,
                   schedule, queueing, results>>
    /\ UNCHANGED components

\* positions at which a thread can outlast join(timeout=5.0)
WorkerBusy(t) == wpc[t] = "process"
MonitorBusy(t) == mpc[t] = "callback"

\* join(timeout=5.0) returns: the thread has ended, or the timeout expired
JoinsReturn ==
    \A t \in Threads :
        /\ wpc[t] \in {"unstarted", "dead"} \/ WorkerBusy(t)
        /\ mpc[t] \in {"unstarted", "dead"} \/ MonitorBusy(t)

\* stop() after the joins: the stream is stopped and released
StopFinish ==
    /\ stop_pc = "joining"
    /\ JoinsReturn
    /\ stream' = None
    /\ stop_pc' = "stopped"
    /\ UNCHANGED <<clock, is_running, lighting_detector, start_outcome, threads,
                   schedule, queueing, results>>
    /\ UNCHANGED components

(***************************************************************************)
(* _capture_worker                                                         *)
(***************************************************************************)
\* _check_scheduled_capture: no scheduled capture yet, or the interval over
ScheduledDue ==
    \/ last_scheduled_capture = NoTime
    \/ total_seconds_ge(Minus(now, last_scheduled_capture[1]),
                        interval_minutes * 60)

\* top of the loop: the flag is tested, then the scheduled capture checked
WorkerLoop(t) ==
    /\ wpc[t] = "loop"
    /\ IF ~is_running
       THEN /\ wpc' = [wpc EXCEPT ![t] = "dead"]
            /\ UNCHANGED <<queueing, last_scheduled_capture>>
       ELSE /\ wpc' = [wpc EXCEPT ![t] = "get"]
            /\ IF ScheduledDue
               THEN /\ Len(issued) < MaxRequests
                    /\ TriggerCapture("scheduled", {})
                    /\ last_scheduled_capture' = At(now)
               ELSE UNCHANGED <<queueing, last_scheduled_capture>>
    /\ UNCHANGED <<clock, lifecycle, wreq, mpc, last_motion_capture, results>>
    /\ UNCHANGED components

\* capture_queue.get(timeout=1.0): a request, or queue.Empty
WorkerGet(t) ==
    /\ wpc[t] = "get"
    /\ IF capture_queue = <<>>
       THEN /\ wpc' = [wpc EXCEPT ![t] = "loop"]
            /\ UNCHANGED <<capture_queue, wreq, dequeues, outcome>>
       ELSE LET capture_request == Head(capture_queue)
            IN  /\ capture_queue' = AfterGet(capture_queue)
                /\ wreq' = [wreq EXCEPT ![t] = <<capture_request>>]
                /\ dequeues' = [dequeues EXCEPT ![capture_request.id] = @ + 1]
                /\ outcome' = [outcome EXCEPT ![capture_request.id] = "inflight"]
                /\ wpc' = [wpc EXCEPT ![t] = "process"]
    /\ UNCHANGED <<clock, lifecycle, mpc, schedule, issued,
                   queue_full_warnings, stats, capture_history, images,
                   sidecars, assessed, imageWrites, sidecarWrites,
                   callback_ids>>
    /\ UNCHANGED components

(***************************************************************************)
(* _process_capture_request                                                *)
(***************************************************************************)
\* an except branch that records no error result
FailureHistoryDropped(h, request, message) == h

\* the except branch: the statistics and the error result
FailureStats(st, request) == UpdateStats(st, FALSE, request.trigger_type)
FailureHistory(h, request, message) == Append(h, ErrorResult(request, message))

\* a worker thread that ends when a request fails
AfterFailureEnds == "dead"

\* where the worker thread is once the request it held has failed
AfterFailure == "loop"

\* open(path, 'w') + json.dump: the file at `path` now holds `content`
WriteFile(files, path, content) ==
    {f \in files : f.path # path} \cup {[path |-> path, content |-> content]}

\* what on_capture_callback is: not set, a function that returns, one that
\* raises
Callbacks == {"unset", "returns", "raises"}

\* the frame pull failed, or there is no stream
ProcessAcquireFailed(t, request) ==
    /\ stats' = FailureStats(stats, request)
    /\ capture_history' =
         FailureHistory(capture_history, request,
                        IF stream = None THEN "stream unavailable"
                                         ELSE "frame acquisition failed")
    /\ outcome' = [outcome EXCEPT ![request.id] = "acquire_failed"]
    /\ wpc' = [wpc EXCEPT ![t] = AfterFailure]
    /\ UNCHANGED <<images, sidecars, assessed, imageWrites, sidecarWrites,
                   callback_ids>>

\* the quality gate rejected the frame
ProcessSkipped(t, request, q) ==
    /\ stats' = UpdateStats(stats, FALSE, request.trigger_type)
    /\ outcome' = [outcome EXCEPT ![request.id] = "skipped"]
    /\ assessed' = assessed \cup {<<request.id, q>>}
    /\ wpc' = [wpc EXCEPT ![t] = "loop"]
    /\ UNCHANGED <<capture_history, images, sidecars, imageWrites,
                   sidecarWrites, callback_ids>>

\* cv2.imwrite (its result is not looked at), the sidecar, the result, the
\* statistics, the callback
ProcessPersist(t, request, q, image_written, sidecar_written, callback) ==
    LET filename == GenerateFilename(request.timestamp, request.trigger_type)
        result == SuccessResult(request, q)
    IN  /\ assessed' = assessed \cup {<<request.id, q>>}
        /\ images' = IF image_written THEN images \cup {filename} ELSE images
        /\ imageWrites' =
             IF image_written THEN [imageWrites EXCEPT ![request.id] = @ + 1]
                              ELSE imageWrites
        /\ IF ~sidecar_written
           THEN /\ stats' = FailureStats(stats, request)
                /\ capture_history' =
                     FailureHistory(capture_history, request,
                                    "sidecar write failed")
                /\ outcome' = [outcome EXCEPT ![request.id] = "write_failed"]
                /\ wpc' = [wpc EXCEPT ![t] = AfterFailure]
                /\ UNCHANGED <<sidecars, sidecarWrites, callback_ids>>
           ELSE /\ sidecars' = WriteFile(sidecars, MetadataPath(filename),
                                         CaptureMetadata(request, q))
                /\ sidecarWrites' = [sidecarWrites EXCEPT ![request.id] = @ + 1]
                /\ callback_ids' = IF callback = "unset" THEN callback_ids
                                   ELSE callback_ids \cup {request.id}
                /\ IF callback = "raises"
                   THEN /\ stats' =
                             FailureStats(
                                 UpdateStats(stats, TRUE, request.trigger_type),
                                 request)
                        /\ capture_history' =
                             FailureHistory(Append(capture_history, result),
                                            request, "callback raised")
                        /\ outcome' =
                             [outcome EXCEPT ![request.id] = "callback_failed"]
                        /\ wpc' = [wpc EXCEPT ![t] = AfterFailure]
                   ELSE /\ stats' =
                             UpdateStats(stats, TRUE, request.trigger_type)
                        /\ capture_history' = Append(capture_history, result)
                        /\ outcome' = [outcome EXCEPT ![request.id] = "persisted"]
                        /\ wpc' = [wpc EXCEPT ![t] = "loop"]

\* the worker processes the request it took from the queue: whether the
\* frame pull succeeded, the quality found, whether the two writes
\* succeeded, what the callback is
WorkerProcessWith(t, pulled, q, image_written, sidecar_written, callback) ==
    /\ wpc[t] = "process"
    /\ IF stream = None \/ ~pulled
       THEN ProcessAcquireFailed(t, wreq[t][1])
       ELSE IF BelowMinimum(q)
            THEN ProcessSkipped(t, wreq[t][1], q)
            ELSE ProcessPersist(t, wreq[t][1], q, image_written,
                                sidecar_written, callback)
    /\ wreq' = [wreq EXCEPT ![t] = <<>>]
    /\ UNCHANGED <<clock, lifecycle, mpc, schedule, capture_queue, issued,
                   queue_full_warnings, dequeues>>
    /\ UNCHANGED components

WorkerProcess(t) ==
    \E pulled \in BOOLEAN, q \in Qualities, image_written \in BOOLEAN,
       sidecar_written \in BOOLEAN, callback \in Callbacks :
        WorkerProcessWith(t, pulled, q, image_written, sidecar_written,
                          callback)

(***************************************************************************)
(* _motion_monitor                                                         *)
(***************************************************************************)
\* the cooldown check with >= in place of >
CooldownOverInclusive ==
    \/ last_motion_capture = NoTime
    \/ total_seconds_ge(Minus(now, last_motion_capture[1]), motion_cooldown)

\* the cooldown check
CooldownOver ==
    \/ last_motion_capture = NoTime
    \/ total_seconds_gt(Minus(now, last_motion_capture[1]), motion_cooldown)

\* top of the loop
MonitorLoop(t) ==
    /\ mpc[t] = "loop"
    /\ mpc' = [mpc EXCEPT ![t] = IF is_running THEN "frame" ELSE "dead"]
    /\ UNCHANGED <<clock, lifecycle, wpc, wreq, schedule, queueing, results>>
    /\ UNCHANGED components

\* one pass of the loop body: frame pull, motion detection, cooldown,
\* trigger (as long as fewer than `budget` requests were issued)
MonitorFrameWithin(t, budget) ==
    /\ mpc[t] = "frame"
    /\ \E motion \in BOOLEAN, callback_set \in BOOLEAN :
         IF stream # None /\ motion /\ CooldownOver
         THEN /\ Len(issued) < budget
              /\ TriggerCapture("motion", {})
              /\ last_motion_capture' = At(now)
              /\ mpc' = [mpc EXCEPT ![t] = IF callback_set THEN "callback"
                                                            ELSE "loop"]
         ELSE /\ mpc' = [mpc EXCEPT ![t] = "loop"]
              /\ UNCHANGED <<queueing, last_motion_capture>>
    /\ UNCHANGED <<clock, lifecycle, wpc, wreq, last_scheduled_capture,
                   results>>
    /\ UNCHANGED components

MonitorFrame(t) == MonitorFrameWithin(t, MaxRequests)

\* on_motion_callback returns (or raises: the loop goes on either way)
MonitorCallback(t) ==
    /\ mpc[t] = "callback"
    /\ mpc' = [mpc EXCEPT ![t] = "loop"]
    /\ UNCHANGED <<clock, lifecycle, wpc, wreq, schedule, queueing, results>>
    /\ UNCHANGED components

(***************************************************************************)
(* One session of the system: construction, start(), the triggers and the  *)
(* two threads, stop().                                                    *)
(***************************************************************************)
Next ==
    \/ Tick
    \/ ExternalTrigger
    \/ Start
    \/ StopBegin
    \/ StopFinish
    \/ \E t \in Threads : WorkerLoop(t)
    \/ \E t \in Threads : WorkerGet(t)
    \/ \E t \in Threads : WorkerProcess(t)
    \/ \E t \in Threads : MonitorLoop(t)
    \/ \E t \in Threads : MonitorFrame(t)
    \/ \E t \in Threads : MonitorCallback(t)

Spec == Init /\ [][Next]_vars

(***************************************************************************)
(* One session in which the capture worker is scheduled fairly.  The       *)
(* callers and the motion monitor leave the first scheduled request its    *)
(* place among the MaxRequests requests of the session, so that the        *)
(* worker's first pass is never held up by the bound.  The session is      *)
(* shorter than the motion cooldown and the capture interval.              *)
(***************************************************************************)
\* the requests the callers and the monitor may have issued so far
TriggerBudget ==
    IF last_scheduled_capture = NoTime THEN MaxRequests - 1 ELSE MaxRequests

FairNext ==
    \/ ExternalTriggerOf(ExternalCalls, TriggerBudget)
    \/ Start
    \/ StopBegin
    \/ StopFinish
    \/ \E t \in Threads : WorkerLoop(t)
    \/ \E t \in Threads : WorkerGet(t)
    \/ \E t \in Threads : WorkerProcess(t)
    \/ \E t \in Threads : MonitorLoop(t)
    \/ \E t \in Threads : MonitorFrameWithin(t, TriggerBudget)
    \/ \E t \in Threads : MonitorCallback(t)

\* every step of a worker thread that can be taken is taken in the end
\* (each of them moves the thread, so wpc tells whether one was taken)
WorkerFairness ==
    \A t \in Threads :
        /\ WF_wpc(WorkerLoop(t))
        /\ WF_wpc(WorkerGet(t))
        /\ WF_wpc(WorkerProcess(t))

FairSpec == Init /\ [][FairNext]_vars /\ WorkerFairness

(***************************************************************************)
(* A system that is stopped and started again.  With more than one worker  *)
(* thread alive, _check_scheduled_capture is no longer one step: a thread  *)
(* tests the interval, and triggers and records the capture afterwards.    *)
(***************************************************************************)
\* the requests a system that is started again may issue
RestartBudget == MaxRequests + 1

\* stop() returns to its caller, who may call start() again
StopReturns ==
    /\ stop_pc = "stopped"
    /\ stop_pc' = "idle"
    /\ UNCHANGED <<clock, is_running, stream, lighting_detector, start_outcome,
                   threads, schedule, queueing, results>>
    /\ UNCHANGED components

\* one capture interval passes (no thread is between the test of the
\* interval and the trigger for that long)
HourPasses ==
    /\ ticks < MaxTicks
    /\ \A t \in Threads : wpc[t] # "schedule"
    /\ now' = Plus(now, Datetime(interval_minutes * 60, 0))
    /\ ticks' = ticks + 1
    /\ UNCHANGED <<lifecycle, threads, schedule, queueing, results>>
    /\ UNCHANGED components

\* top of the loop and the test of _check_scheduled_capture
WorkerCheck(t) ==
    /\ wpc[t] = "loop"
    /\ wpc' = [wpc EXCEPT ![t] = IF ~is_running THEN "dead"
                                 ELSE IF ScheduledDue THEN "schedule"
                                 ELSE "get"]
    /\ UNCHANGED <<clock, lifecycle, wreq, mpc, schedule, queueing, results>>
    /\ UNCHANGED components

\* the rest of _check_scheduled_capture: trigger_capture("scheduled") and
\* last_scheduled_capture = now
WorkerSchedule(t) ==
    /\ wpc[t] = "schedule"
    /\ Len(issued) < RestartBudget
    /\ TriggerCapture("scheduled", {})
    /\ last_scheduled_capture' = At(now)
    /\ wpc' = [wpc EXCEPT ![t] = "get"]
    /\ UNCHANGED <<clock, lifecycle, wreq, mpc, last_motion_capture, results>>
    /\ UNCHANGED components

\* the manual trigger of the command line
ManualCalls == {call \in ExternalCalls : call.metadata = {<<"test", "True">>}}

RestartNext ==
    \/ HourPasses
    \/ ExternalTriggerOf(ManualCalls, RestartBudget)
    \/ Start
    \/ StopBegin
    \/ StopFinish
    \/ StopReturns
    \/ \E t \in Threads : WorkerCheck(t)
    \/ \E t \in Threads : WorkerSchedule(t)
    \/ \E t \in Threads : WorkerGet(t)
    \/ \E t \in Threads :
           WorkerProcessWith(t, TRUE, min_quality, TRUE, TRUE, "unset")
    \/ \E t \in Threads : MonitorLoop(t)
    \/ \E t \in Threads : MonitorFrameWithin(t, RestartBudget)
    \/ \E t \in Threads : MonitorCallback(t)

RestartSpec == Init /\ [][RestartNext]_vars

(***************************************************************************)
(* cleanup_old_files: the retention sweep over storage_paths['raw_frames'].*)
(* A file is [capture, suffix, age]: the capture it belongs to, ".jpg" or  *)
(* ".json", and the days between its st_mtime and the `now` of the sweep.  *)
(***************************************************************************)
MaxCaptures == 2
MaxVanished == 1
max_days == 7

Captures == 1..MaxCaptures
Suffixes == {".jpg", ".json"}
Ages == {max_days, max_days + 1}
Files == [capture : Captures, suffix : Suffixes, age : Ages]

\* a path: the file's name without its age
Name(f) == <<f.capture, f.suffix>>

\* the directories the sweep can find: at most one file per name
Directories ==
    {d \in SUBSET Files : \A f, g \in d : Name(f) = Name(g) => f = g}

\* the orders in which glob("hamster_*") can list the files of d
GlobOrders(d) ==
    {o \in [1..Cardinality(d) -> {Name(f) : f \in d}] :
        \A j, k \in 1..Cardinality(d) : j # k => o[j] # o[k]}

\* file_path.stat().st_mtime < cutoff_date.timestamp()
Expired(f) == f.age > max_days

\* file_path.with_suffix('.json')
WithSuffixJson(name) == <<name[1], ".json">>

\* the files of directory d at path `name`
At_path(d, name) == {f \in d : Name(f) = name}

\* the sweep starts: now, cutoff_date, and the glob lists the directory
CleanupBegin ==
    /\ sweep_pc = "idle"
    /\ \E o \in GlobOrders(raw_frames) : glob_entries' = o
    /\ listed' = raw_frames
    /\ deleted_count' = 0
    /\ sweep_pc' = "sweeping"
    /\ UNCHANGED <<raw_frames, unlink_failed, vanished>>
    /\ UNCHANGED <<orchestrator, detector, lighting, quality>>

\* one iteration of the for loop
CleanupVisit ==
    /\ sweep_pc = "sweeping"
    /\ glob_entries # <<>>
    /\ LET name == Head(glob_entries)
           here == At_path(raw_frames, name)
       IN  IF here = {}
           THEN \* stat() raises outside the inner try: the outer except
                \* logs the error and the sweep is over
                /\ sweep_pc' = "aborted"
                /\ UNCHANGED <<raw_frames, glob_entries, deleted_count,
                               unlink_failed>>
           ELSE /\ glob_entries' = Tail(glob_entries)
                /\ UNCHANGED sweep_pc
                /\ IF \E f \in here : Expired(f)
                   THEN \E unlinked \in BOOLEAN, metadata_unlinked \in BOOLEAN :
                          LET rest == raw_frames \ here
                              metadata == At_path(rest, WithSuffixJson(name))
                          IN  IF ~unlinked
                              THEN /\ unlink_failed' = unlink_failed \cup {name}
                                   /\ UNCHANGED <<raw_frames, deleted_count>>
                              ELSE IF metadata = {}
                              THEN /\ raw_frames' = rest
                                   /\ deleted_count' = deleted_count + 1
                                   /\ UNCHANGED unlink_failed
                              ELSE IF metadata_unlinked
                              THEN /\ raw_frames' = rest \ metadata
                                   /\ deleted_count' = deleted_count + 1
                                   /\ UNCHANGED unlink_failed
                              ELSE /\ raw_frames' = rest
                                   /\ unlink_failed' =
                                        unlink_failed \cup {WithSuffixJson(name)}
                                   /\ UNCHANGED deleted_count
                   ELSE UNCHANGED <<raw_frames, deleted_count, unlink_failed>>
    /\ UNCHANGED <<listed, vanished>>
    /\ UNCHANGED <<orchestrator, detector, lighting, quality>>

\* the loop is over: cleanup_old_files returns
CleanupEnd ==
    /\ sweep_pc = "sweeping"
    /\ glob_entries = <<>>
    /\ sweep_pc' = "done"
    /\ UNCHANGED <<raw_frames, glob_entries, deleted_count, listed,
                   unlink_failed, vanished>>
    /\ UNCHANGED <<orchestrator, detector, lighting, quality>>

\* somebody else removes a file while the sweep is under way
FileVanishes ==
    /\ sweep_pc = "sweeping"
    /\ Cardinality(vanished) < MaxVanished
    /\ \E f \in raw_frames :
         /\ raw_frames' = raw_frames \ {f}
         /\ vanished' = vanished \cup {Name(f)}
    /\ UNCHANGED <<glob_entries, sweep_pc, deleted_count, listed,
                   unlink_failed>>
    /\ UNCHANGED <<orchestrator, detector, lighting, quality>>

\* a sweep over any directory
CleanupInit ==
    /\ Constructed
    /\ raw_frames \in Directories
    /\ glob_entries = <<>>
    /\ sweep_pc = "idle"
    /\ deleted_count = 0
    /\ listed = {}
    /\ unlink_failed = {}
    /\ vanished = {}
    /\ NewMotionDetector
    /\ NewLightingDetector
    /\ hour = 0
    /\ NewQualityAssessor

CleanupNext ==
    \/ CleanupBegin
    \/ CleanupVisit
    \/ CleanupEnd
    \/ FileVanishes

CleanupSpec == CleanupInit /\ [][CleanupNext]_vars

(***************************************************************************)
(* MotionDetector (data_collection/motion_detector.py).  A contour is      *)
(* [area2, w, h, hull_area2, confidence]: cv2.contourArea of the contour   *)
(* and of its convex hull in half pixels (contourArea yields multiples of  *)
(* 0.5), the bounding rectangle, and the value _calculate_confidence       *)
(* yields for it, in hundredths.  Time is in seconds since construction.   *)
(***************************************************************************)
MaxFrames == 2

min_area_px == 300
max_area_px == 8000
\* min_aspect_ratio 0.3 and max_aspect_ratio 3.0, in tenths
min_aspect_ratio == 3
max_aspect_ratio == 30
\* the solidity limit 0.5, in tenths
min_solidity == 5
\* valid events have confidence > 0.5, in hundredths
valid_confidence == 50
motion_history_maxlen == 30
activity_window == 60
activity_threshold == 10
min_state_duration == 30

\* the contours a frame can hold: the edges of each filter
Areas2 == {2 * min_area_px - 1, 2 * min_area_px,
           2 * max_area_px, 2 * max_area_px + 1}
Boxes == {<<3, 10>>, <<29, 100>>, <<30, 10>>, <<31, 10>>, <<5, 0>>}
Contour(a, b, e, c) ==
    [area2 |-> a, w |-> b[1], h |-> b[2], hull_area2 |-> 2 * a + e,
     confidence |-> c]
\* every area with every box, and every area with every hull and confidence
Contours ==
    {Contour(a, b, 0, valid_confidence + 1) : a \in Areas2, b \in Boxes}
    \cup {Contour(a, <<3, 10>>, e, c) :
             a \in Areas2, e \in {0, 1},
             c \in {valid_confidence, valid_confidence + 1}}

\* a frame: no contour, or n contours of one shape
Copies == {1, activity_threshold + 1}
Frames ==
    {<<>>} \cup {[k \in 1..n |-> c] : c \in Contours, n \in Copies}

\* seconds between two detect_motion calls
FrameGaps == {1, min_state_duration}

\* where a call can raise: nowhere, while the frame is preprocessed, in
\* the on_activity_change callback, in the on_motion_detected callback
Faults == {"none", "frame", "on_activity_change", "on_motion_detected"}

\* the area filter without its lower limit
AreaInRangeNoMinimum(c) == c.area2 <= 2 * max_area_px

\* min_area_px <= area <= max_area_px
AreaInRange(c) ==
    2 * min_area_px <= c.area2 /\ c.area2 <= 2 * max_area_px

\* aspect_ratio = w / h if h > 0 else 0, within [0.3, 3.0]
AspectInRange(c) ==
    IF c.h > 0
    THEN min_aspect_ratio * c.h <= 10 * c.w /\ 10 * c.w <= max_aspect_ratio * c.h
    ELSE FALSE

\* solidity = area / hull_area if hull_area > 0 else 0, not below 0.5
Solid(c) ==
    IF c.hull_area2 > 0
    THEN 10 * c.area2 >= min_solidity * c.hull_area2
    ELSE FALSE

IsHamsterContour(c) == AreaInRange(c) /\ AspectInRange(c) /\ Solid(c)

FilterHamsterContours(contours) == SelectSeq(contours, IsHamsterContour)

MotionEvent(contour, timestamp) ==
    [ timestamp |-> timestamp,
      area2 |-> contour.area2,
      confidence |-> contour.confidence,
      contour |-> contour ]

IsValidEvent(e) == e.confidence > valid_confidence

\* deque(maxlen=30).append
DequeAppend(q, x) ==
    IF Len(q) >= motion_history_maxlen THEN Append(Tail(q), x)
                                       ELSE Append(q, x)

RECURSIVE SumEventCount(_)
SumEventCount(h) ==
    IF h = <<>> THEN 0 ELSE Head(h).event_count + SumEventCount(Tail(h))

\* the entries of the history not older than the window
IsRecent(h, timestamp) == timestamp - h.timestamp <= activity_window

NewState(history, timestamp) ==
    LET recent_history ==
            SelectSeq(history, LAMBDA h : IsRecent(h, timestamp))
    IN  IF SumEventCount(recent_history) > activity_threshold
        THEN "active" ELSE "rest"

\* a change of state committed as soon as new_state differs
StateChangeDueAtOnce(new_state, timestamp) ==
    new_state # current_activity_state

\* new_state differs and min_state_duration has passed since the last change
StateChangeDue(new_state, timestamp) ==
    /\ new_state # current_activity_state
    /\ timestamp - last_activity_change >= min_state_duration

\* the except clause handing the events out all the same
OnExceptionKeeps(events) == events

\* except Exception: return []
OnException(events) == <<>>

\* one detect_motion(frame) call, timestamp = datetime.now()
DetectMotion ==
    /\ frames_seen < MaxFrames
    /\ frames_seen' = frames_seen + 1
    /\ \E elapsed \in FrameGaps, contours \in Frames, created \in BOOLEAN,
          fault \in Faults :
         LET timestamp == md_now + elapsed
             hamster_contours == FilterHamsterContours(contours)
             events ==
                 IF created
                 THEN [k \in 1..Len(hamster_contours) |->
                          MotionEvent(hamster_contours[k], timestamp)]
                 ELSE <<>>
             valid_events == SelectSeq(events, IsValidEvent)
             history ==
                 DequeAppend(motion_history,
                             [timestamp |-> timestamp,
                              event_count |-> Len(valid_events)])
             new_state == NewState(history, timestamp)
             changes == StateChangeDue(new_state, timestamp)
         IN  /\ md_now' = timestamp
             /\ frame' = contours
             /\ IF fault = "frame"
                THEN /\ raised_at' = "frame"
                     /\ motion_events' = OnException(<<>>)
                     /\ notified' = "none"
                     /\ UNCHANGED <<current_activity_state, last_activity_change,
                                    motion_history, motion_stats, candidate,
                                    candidate_since>>
                ELSE /\ motion_history' = history
                     /\ candidate' = new_state
                     /\ candidate_since' =
                          IF new_state = candidate THEN candidate_since
                                                   ELSE timestamp
                     /\ motion_stats' =
                          [motion_stats EXCEPT
                             !.total_detections = @ + Len(events),
                             !.valid_detections = @ + Len(valid_events),
                             !.active_periods =
                                 IF changes /\ new_state = "active"
                                 THEN @ + 1 ELSE @,
                             !.rest_periods =
                                 IF changes /\ new_state # "active"
                                 THEN @ + 1 ELSE @]
                     /\ IF changes
                        THEN /\ current_activity_state' = new_state
                             /\ last_activity_change' = timestamp
                             /\ notified' = new_state
                        ELSE /\ notified' = "none"
                             /\ UNCHANGED <<current_activity_state,
                                            last_activity_change>>
                     /\ IF changes /\ fault = "on_activity_change"
                        THEN /\ raised_at' = "on_activity_change"
                             /\ motion_events' = OnException(events)
                        ELSE IF events # <<>> /\ fault = "on_motion_detected"
                        THEN /\ raised_at' = "on_motion_detected"
                             /\ motion_events' = OnException(events)
                        ELSE /\ raised_at' = "none"
                             /\ motion_events' = events
    /\ UNCHANGED <<orchestrator, retention, lighting, quality>>

MotionInit ==
    /\ Constructed
    /\ NoSweep
    /\ NewMotionDetector
    /\ NewLightingDetector
    /\ hour = 0
    /\ NewQualityAssessor

MotionNext == DetectMotion

MotionSpec == MotionInit /\ [][MotionNext]_vars

(***************************************************************************)
(* LightingModeDetector (utils/lighting_detector.py).  A frame is the      *)
(* measurements the estimators take from it: whether a channel has         *)
(* standard deviation 0, the mean correlation of the channels (in          *)
(* hundredths), the number of non-empty hue bins, whether the edge density *)
(* is above 0.05 and whether the dark + bright share is above 0.4.         *)
(* Confidences are in units of 1/One.                                      *)
(***************************************************************************)
MaxCalls == 5

\* confidence 1.0
One == 108000
history_size == 5
min_history == 3
confidence_threshold == (8 * One) \div 10
sunrise_hour == 6
sunset_hour == 18
\* the weights of the estimators, in twentieths: 0.7, 0.1, 0.15, 0.05
weight_rgb == 14
weight_time == 2
weight_hue == 3
weight_edge == 1

Hours == 0..23

InvalidFrame ==
    [valid |-> FALSE, std_zero |-> FALSE, correlation |-> 0,
     non_zero_bins |-> 0, edge_dense |-> FALSE, extreme |-> FALSE]
\* three equal constant channels: one hue bin, no edge, one gray level
\* (inside the dark or bright ends of the histogram, or not)
UniformGrayFrame(extreme) ==
    [valid |-> TRUE, std_zero |-> TRUE, correlation |-> 100,
     non_zero_bins |-> 1, edge_dense |-> FALSE, extreme |-> extreme]
ColourfulFrame ==
    [valid |-> TRUE, std_zero |-> FALSE, correlation |-> 50,
     non_zero_bins |-> 90, edge_dense |-> FALSE, extreme |-> FALSE]
NoisyGrayFrame ==
    [valid |-> TRUE, std_zero |-> FALSE, correlation |-> 95,
     non_zero_bins |-> 1, edge_dense |-> TRUE, extreme |-> TRUE]
LightingFrames ==
    {InvalidFrame, ColourfulFrame, NoisyGrayFrame}
    \cup {UniformGrayFrame(x) : x \in BOOLEAN}

Min(a, b) == IF a < b THEN a ELSE b
Max(a, b) == IF a > b THEN a ELSE b

DetectByRgbCorrelation(f) ==
    IF f.std_zero THEN <<"ir", (9 * One) \div 10>>
    ELSE IF f.correlation > 90
    THEN <<"ir", Min(One, ((f.correlation + 10) * One) \div 100)>>
    ELSE <<"color", Max(One \div 2, ((100 - f.correlation) * One) \div 100)>>

DetectByTime(h) ==
    IF sunrise_hour <= h /\ h < sunset_hour
    THEN LET distance_from_noon == IF h >= 12 THEN h - 12 ELSE 12 - h
         IN  <<"color", Max(One \div 2, One - (distance_from_noon * One) \div 6)>>
    ELSE LET distance_from_midnight ==
                 IF h >= sunset_hour THEN Min(h - sunset_hour, 24 - h)
                                     ELSE sunrise_hour - h
         IN  <<"ir", Max(One \div 2, One - (distance_from_midnight * One) \div 6)>>

\* diversity_ratio = non_zero_bins / 180 against diversity_threshold 0.15
DetectByHueDiversity(f) ==
    IF 100 * f.non_zero_bins > 15 * 180
    THEN <<"color", Min(One, (2 * f.non_zero_bins * One) \div 180)>>
    ELSE <<"ir", One - (f.non_zero_bins * One) \div 27>>

DetectByEdgeCharacteristics(f) ==
    LET ir_score == (IF f.edge_dense THEN One \div 2 ELSE 0)
                    + (IF f.extreme THEN One \div 2 ELSE 0)
    IN  IF ir_score > One \div 2 THEN <<"ir", ir_score>>
                                 ELSE <<"color", One - ir_score>>

\* the weighted score of one mode over the four estimators
Score(mode, rgb, time, hue, edge) ==
    (IF rgb[1] = mode THEN (rgb[2] * weight_rgb) \div 20 ELSE 0)
    + (IF time[1] = mode THEN (time[2] * weight_time) \div 20 ELSE 0)
    + (IF hue[1] = mode THEN (hue[2] * weight_hue) \div 20 ELSE 0)
    + (IF edge[1] = mode THEN (edge[2] * weight_edge) \div 20 ELSE 0)

IntegrateDecisions(rgb, time, hue, edge) ==
    LET ir_score == Score("ir", rgb, time, hue, edge)
        color_score == Score("color", rgb, time, hue, edge)
        weights == weight_rgb + weight_time + weight_hue + weight_edge
    IN  IF ir_score > color_score
        THEN <<"ir", (ir_score * 20) \div weights>>
        ELSE <<"color", (color_score * 20) \div weights>>

\* deque(maxlen=history_size).append
HistoryAppend(h, x) ==
    IF Len(h) >= history_size THEN Append(Tail(h), x) ELSE Append(h, x)

Count(h, mode) == Cardinality({k \in DOMAIN h : h[k] = mode})

RECURSIVE SumSeq(_)
SumSeq(h) == IF h = <<>> THEN 0 ELSE Head(h) + SumSeq(Tail(h))

\* the vote with its comparison turned round
MajorityModeReversed(ir_count, color_count) ==
    IF ir_count < color_count THEN "ir" ELSE "color"

\* if ir_count > color_count: 'ir', else 'color'
MajorityMode(ir_count, color_count) ==
    IF ir_count > color_count THEN "ir" ELSE "color"

\* _stabilize_with_history, on the histories after the append
Stabilized(modes, confidences) ==
    IF Len(modes) < min_history
    THEN <<modes[Len(modes)], confidences[Len(confidences)]>>
    ELSE <<MajorityMode(Count(modes, "ir"), Count(modes, "color")),
           SumSeq(confidences) \div Len(confidences)>>

\* one detect_mode(frame) call
DetectMode ==
    /\ lighting_calls < MaxCalls
    /\ lighting_calls' = lighting_calls + 1
    /\ \E f \in LightingFrames :
         /\ lighting_frame' = <<f>>
         /\ IF ~f.valid
            THEN /\ detected' = <<"unknown", 0>>
                 /\ UNCHANGED <<mode_history, confidence_history,
                                detection_stats>>
            ELSE LET final == IntegrateDecisions(DetectByRgbCorrelation(f),
                                                 DetectByTime(hour),
                                                 DetectByHueDiversity(f),
                                                 DetectByEdgeCharacteristics(f))
                     modes == HistoryAppend(mode_history, final[1])
                     confidences == HistoryAppend(confidence_history, final[2])
                     stable == Stabilized(modes, confidences)
                 IN  /\ mode_history' = modes
                     /\ confidence_history' = confidences
                     /\ detected' = stable
                     /\ detection_stats' =
                          [detection_stats EXCEPT
                             !.total_frames = @ + 1,
                             !.ir_frames =
                                 IF stable[1] = "ir" THEN @ + 1 ELSE @,
                             !.color_frames =
                                 IF stable[1] = "color" THEN @ + 1 ELSE @,
                             !.low_confidence_frames =
                                 IF stable[2] < confidence_threshold
                                 THEN @ + 1 ELSE @]
    /\ UNCHANGED <<hour, simple_frame, simple_detected>>
    /\ UNCHANGED <<orchestrator, retention, detector, quality>>

\* SimpleLightingDetector.threshold, in hundredths
simple_threshold == 95

\* frames whose channels vary, by their mean correlation
CorrelatedFrames ==
    {[valid |-> TRUE, std_zero |-> FALSE, correlation |-> c,
      non_zero_bins |-> 1, edge_dense |-> FALSE, extreme |-> FALSE] :
        c \in {50, 90, 91, 95, 96}}

\* SimpleLightingDetector.detect_mode: np.corrcoef of a constant channel is
\* nan, and so is the mean; every exception gives 'unknown'
SimpleDetectMode(f) ==
    IF ~f.valid \/ f.std_zero THEN <<"unknown", 0>>
    ELSE IF f.correlation > simple_threshold
    THEN <<"ir", (f.correlation * One) \div 100>>
    ELSE <<"color", ((100 - f.correlation) * One) \div 100>>

\* estimator 1 of the full detector on any frame: cv2.split raises on a
\* frame that is none, and the except clause returns 'unknown'
EstimatorOne(f) ==
    IF ~f.valid THEN <<"unknown", 0>> ELSE DetectByRgbCorrelation(f)

\* one SimpleLightingDetector.detect_mode(frame) call
SimpleDetect ==
    /\ \E f \in LightingFrames \cup CorrelatedFrames :
         /\ simple_frame' = <<f>>
         /\ simple_detected' = SimpleDetectMode(f)
    /\ UNCHANGED <<hour, mode_history, confidence_history, detection_stats,
                   lighting_calls, lighting_frame, detected>>
    /\ UNCHANGED <<orchestrator, retention, detector, quality>>

\* a new detector, at any hour of the day
LightingInit ==
    /\ Constructed
    /\ NoSweep
    /\ NewMotionDetector
    /\ NewLightingDetector
    /\ hour \in Hours
    /\ NewQualityAssessor

LightingNext == DetectMode \/ SimpleDetect

LightingSpec == LightingInit /\ [][LightingNext]_vars


(***************************************************************************)
(* DataQualityAssessor (data_collection/data_quality.py).  An image is     *)
(* what the assessor measures of it: whether it can be read as a frame,    *)
(* its gray version (an identifier) and the weighted sum of its            *)
(* sub-scores, in thousandths.                                             *)
(***************************************************************************)
MaxEvaluations == 12

max_background_frames == 10
\* level_thresholds, in thousandths
threshold_excellent == 800
threshold_good == 650
threshold_acceptable == 500
threshold_poor == 300

GrayFrames == {"gray_a", "gray_b"}
\* the weighted sums tried: each threshold, the value under it, the ends
Scores == {0, threshold_poor - 1, threshold_poor,
           threshold_acceptable - 1, threshold_acceptable,
           threshold_good - 1, threshold_good,
           threshold_excellent - 1, threshold_excellent, 1000}
\* an image no estimator can read (its .shape raises) and the readable ones
QualityImages ==
    {[readable |-> FALSE, gray |-> None, weighted |-> 0]}
    \cup [readable : {TRUE}, gray : GrayFrames, weighted : Scores]

\* the thresholds compared strictly
DetermineQualityLevelStrict(score) ==
    IF score > threshold_excellent THEN "excellent"
    ELSE IF score > threshold_good THEN "good"
    ELSE IF score > threshold_acceptable THEN "acceptable"
    ELSE IF score > threshold_poor THEN "poor"
    ELSE "reject"

DetermineQualityLevel(score) ==
    IF score >= threshold_excellent THEN "excellent"
    ELSE IF score >= threshold_good THEN "good"
    ELSE IF score >= threshold_acceptable THEN "acceptable"
    ELSE IF score >= threshold_poor THEN "poor"
    ELSE "reject"

\* the buffer that only grows
BackgroundAppendKeeping(frames, gray) == Append(frames, gray)

\* the buffer of _evaluate_background_stability after one more gray frame
BackgroundAppend(frames, gray) ==
    IF Len(frames) < max_background_frames
    THEN Append(frames, gray)
    ELSE Append(Tail(frames), gray)

\* one evaluate_image_quality(image) call.  On an unreadable image every
\* estimator catches its own exception before it touches anything, and
\* image.shape raises in the end: the call returns the default metrics.
EvaluateImageQuality ==
    /\ total_evaluated < MaxEvaluations
    /\ \E image \in QualityImages :
         /\ evaluated_image' = <<image>>
         /\ IF image.readable
            THEN /\ background_frames' =
                        BackgroundAppend(background_frames, image.gray)
                 /\ overall_score' = <<image.weighted>>
                 /\ quality_level' = DetermineQualityLevel(image.weighted)
                 /\ total_evaluated' = total_evaluated + 1
            ELSE /\ overall_score' = <<0>>
                 /\ quality_level' = "reject"
                 /\ UNCHANGED <<background_frames, total_evaluated>>
    /\ UNCHANGED <<orchestrator, retention, detector, lighting>>

QualityInit ==
    /\ Constructed
    /\ NoSweep
    /\ NewMotionDetector
    /\ NewLightingDetector
    /\ hour = 0
    /\ NewQualityAssessor

QualityNext == EvaluateImageQuality

QualitySpec == QualityInit /\ [][QualityNext]_vars

(***************************************************************************)
(* Properties.                                                             *)
(***************************************************************************)
Finished == {"skipped", "acquire_failed", "write_failed", "persisted",
             "callback_failed"}

\* the entries of the capture history that belong to request i
ResultsOf(i) == {k \in DOMAIN capture_history : capture_history[k].id = i}

\* the files of `files` at `path`
FilesAt(files, path) == {f \in files : f.path = path}

MotionRequests == {k \in DOMAIN issued : issued[k].trigger_type = "motion"}

C2_ProcessedAtMostOnce ==
    \A i \in RequestIds :
        /\ dequeues[i] <= 1
        /\ imageWrites[i] <= 1
        /\ sidecarWrites[i] <= 1
        /\ Cardinality({k \in DOMAIN capture_queue : capture_queue[k].id = i})
             <= 1 - dequeues[i]

\* a request was persisted: its image and its sidecar were written
C2_Witness ==
    \E i \in RequestIds :
        /\ outcome[i] = "persisted"
        /\ imageWrites[i] = 1
        /\ sidecarWrites[i] = 1

C4_QueueBounded ==
    /\ maxsize > 0
    /\ Len(capture_queue) <= maxsize

\* C5: when the quality score of the frame is below the minimum the request
\* ends as skipped: nothing is written, the callback is not invoked, and the
\* statistics count one more capture that is no success.
C5_LowQualitySkipped ==
    [][\A i \in RequestIds :
         (/\ outcome[i] = "inflight"
          /\ \E q \in Qualities : q < min_quality /\ <<i, q>> \in assessed')
         => /\ outcome'[i] = "skipped"
            /\ images' = images
            /\ sidecars' = sidecars
            /\ imageWrites' = imageWrites
            /\ sidecarWrites' = sidecarWrites
            /\ callback_ids' = callback_ids
            /\ stats'.total_captures = stats.total_captures + 1
            /\ stats'.successful_captures = stats.successful_captures
            /\ stats'.failed_captures = stats.failed_captures + 1]_vars

\* a request was skipped for its quality
C5_Witness ==
    \E i \in RequestIds :
        /\ outcome[i] = "skipped"
        /\ \E q \in Qualities : q < min_quality /\ <<i, q>> \in assessed

\* C6: once a dequeued request is finished, the capture history holds a
\* result for it, whether it succeeded, was skipped or failed.
C6_EveryOutcomeInHistory ==
    \A i \in RequestIds : outcome[i] \in Finished => ResultsOf(i) # {}

\* C7: when a result with success = true is appended to the history, the
\* image at its file path and the .json sidecar both exist.
C7_SuccessHasFiles ==
    [][\A k \in DOMAIN capture_history' \ DOMAIN capture_history :
         capture_history'[k].success
         => /\ capture_history'[k].filename \in images'
            /\ FilesAt(sidecars',
                       MetadataPath(capture_history'[k].filename)) # {}]_vars

\* C8: the sidecar written for a request carries the request's timestamp
\* (its timestamp field parses back to it) and the request's trigger type,
\* whatever metadata the caller passed.
C8_SidecarRoundTrip ==
    [][\A i \in RequestIds :
         sidecarWrites'[i] > sidecarWrites[i]
         => \A f \in FilesAt(sidecars',
                               MetadataPath(GenerateFilename(
                                   issued[i].timestamp,
                                   issued[i].trigger_type))) :
              /\ fromisoformat(Field(f.content, "timestamp"))
                   = issued[i].timestamp
              /\ Field(f.content, "trigger_type") = issued[i].trigger_type]_vars

C10_AcquisitionFailure ==
    /\ [](\A i \in RequestIds :
            outcome[i] = "acquire_failed"
            => /\ Cardinality(ResultsOf(i)) = 1
               /\ \A k \in ResultsOf(i) :
                    /\ ~capture_history[k].success
                    /\ capture_history[k].error_message # None
               /\ imageWrites[i] = 0
               /\ sidecarWrites[i] = 0)
    /\ [][\A i \in RequestIds :
            (outcome[i] = "inflight" /\ outcome'[i] = "acquire_failed")
            => /\ images' = images
               /\ sidecars' = sidecars
               /\ \A t \in Threads :
                    (wpc[t] = "process" /\ wreq[t][1].id = i)
                    => wpc'[t] = "loop"]_vars

\* an acquisition failed and the request behind it was processed afterwards
C10_Witness ==
    \E i, j \in RequestIds :
        /\ i < j
        /\ outcome[i] = "acquire_failed"
        /\ outcome[j] \in Finished
        /\ \E t \in Threads : wpc[t] # "dead" /\ wpc[t] # "unstarted"

\* C11: a start() in which the frame source refuses to start, or in which
\* the lighting detector cannot be built, raises to its caller, starts no
\* capture worker and no motion monitor, and leaves is_running false.
C11_StartAborts ==
    [][(/\ ~is_running
        /\ stop_pc = "idle"
        /\ \/ start_outcome' = "raised"
           \/ stream = None /\ stream' = "running" /\ lighting_detector' = None)
       => /\ start_outcome' = "raised"
          /\ ~is_running'
          /\ wpc' = wpc
          /\ mpc' = mpc]_vars

\* C12: once stop() has returned (the session report is written) the
\* worker and the monitor have ended: no result is appended, no counter
\* changes and no request is enqueued any more.
C12_QuietAfterStop ==
    /\ [](stop_pc = "stopped"
          => \A t \in Threads : /\ wpc[t] \in {"unstarted", "dead"}
                                /\ mpc[t] \in {"unstarted", "dead"})
    /\ [][stop_pc = "stopped"
          => /\ capture_history' = capture_history
             /\ stats' = stats
             /\ issued' = issued]_vars

\* the sweep is over: cleanup_old_files has returned
SweepOver == sweep_pc \in {"done", "aborted"}

\* the files the sweep listed and removed itself
Removed == {f \in listed : f \notin raw_frames /\ Name(f) \notin vanished}

\* C13: in a retention sweep a failure on one file (its unlink raises, or
\* the file has disappeared) stays with that file: when the sweep is over,
\* every other file older than the retention window has been removed.
C13_SweepFailureIsLocal ==
    SweepOver
    => \A f \in listed :
         (/\ Expired(f)
          /\ Name(f) \notin unlink_failed
          /\ Name(f) \notin vanished)
         => f \notin raw_frames

\* C14: a retention sweep removes exactly the image + sidecar pairs older
\* than the retention window: it removes no file that is not older than the
\* window, it removes or keeps the image and the sidecar of a capture
\* together, and a sweep in which nothing failed removes every older file.
C14_SweepRemovesExpiredPairs ==
    SweepOver
    => /\ \A f \in Removed : Expired(f)
       /\ \A f, g \in listed :
            (/\ f.capture = g.capture
             /\ Name(f) \notin vanished
             /\ Name(g) \notin vanished)
            => (f \in raw_frames <=> g \in raw_frames)
       /\ (sweep_pc = "done" /\ unlink_failed = {} /\ vanished = {})
          => \A f \in listed : Expired(f) => f \in Removed

\* C15: MotionDetector commits a change of its activity state, and calls
\* on_activity_change, only when the new state has been the candidate at
\* every evaluation of the last 30 s; before the first commit the state is
\* "unknown".
C15_CommitAfterPersistence ==
    /\ [](motion_stats.active_periods + motion_stats.rest_periods = 0
          => current_activity_state = "unknown")
    /\ [][(current_activity_state' # current_activity_state
           \/ (frames_seen' # frames_seen /\ notified' # "none"))
          => /\ candidate' = current_activity_state'
             /\ md_now' - candidate_since' >= min_state_duration]_vars

\* C16: detect_motion returns events only for contours of the frame with
\* area in [300, 8000], width / height in [0.3, 3.0] and solidity at least
\* 0.5, and none at all for a frame whose contours have areas outside
\* [300, 8000].
C16_OnlyHamsterContours ==
    /\ \A k \in DOMAIN motion_events :
         LET c == motion_events[k].contour
         IN  /\ \E j \in DOMAIN frame : frame[j] = c
             /\ 2 * min_area_px <= c.area2
             /\ c.area2 <= 2 * max_area_px
             /\ c.h > 0
             /\ 3 * c.h <= 10 * c.w
             /\ c.w <= 3 * c.h
             /\ c.hull_area2 <= 2 * c.area2
    /\ (\A j \in DOMAIN frame :
          frame[j].area2 < 2 * min_area_px \/ frame[j].area2 > 2 * max_area_px)
       => motion_events = <<>>

\* an event was returned for a contour on the lower edge of every filter:
\* area 300, width / height 0.3, solidity 0.5
C16_Witness ==
    \E k \in DOMAIN motion_events :
        /\ motion_events[k].contour.area2 = 2 * min_area_px
        /\ motion_events[k].contour.w = 3
        /\ motion_events[k].contour.h = 10
        /\ motion_events[k].contour.hull_area2 = 4 * min_area_px

\* C17: detect_motion hands no exception to its caller: a call in which
\* something raised (the frame processing, on_activity_change or
\* on_motion_detected) returns the empty list, and the detector's state
\* stays one the next call can work from.
C17_NoExceptionPropagates ==
    /\ raised_at # "none" => motion_events = <<>>
    /\ current_activity_state \in {"unknown", "active", "rest"}
    /\ Len(motion_history) <= frames_seen
    /\ \A k \in DOMAIN motion_history : motion_history[k].timestamp <= md_now

\* the first call raised on its frame; the second one processed its frame,
\* found events, and returned the empty list because on_motion_detected
\* raised
C17_Witness ==
    /\ frames_seen = 2
    /\ Len(motion_history) = 1
    /\ raised_at = "on_motion_detected"
    /\ motion_stats.total_detections > 0
    /\ motion_events = <<>>

\* the last detect_mode call had a usable frame and returned a decision
Decided == detected # <<>> /\ detected[1] # "unknown"

\* the frame of the last detect_mode call was a uniform gray one
OnUniformGray ==
    /\ lighting_frame # <<>>
    /\ \E x \in BOOLEAN : lighting_frame[1] = UniformGrayFrame(x)

\* C18: the first detect_mode call of a new LightingModeDetector on a
\* uniform gray frame returns mode "ir" with confidence at least 0.9,
\* whatever the hour.
C18_UniformGrayIsIr ==
    (lighting_calls = 1 /\ OnUniformGray) =>
        /\ detected[1] = "ir"
        /\ detected[2] >= (9 * One) \div 10

\* C19: once the history holds at least 3 samples, detect_mode returns the
\* majority mode of the history, which holds at most 5 decisions, and
\* returns "ir" when the counts of "ir" and "color" are equal.
C19_MajorityTiesToIr ==
    (Decided /\ Len(mode_history) >= 3) =>
        /\ Len(mode_history) <= 5
        /\ Count(mode_history, "ir") > Count(mode_history, "color")
               => detected[1] = "ir"
        /\ Count(mode_history, "ir") < Count(mode_history, "color")
               => detected[1] = "color"
        /\ Count(mode_history, "ir") = Count(mode_history, "color")
               => detected[1] = "ir"

\* the last three integrated decisions are all the mode m
LastThreeAre(m) ==
    /\ Len(mode_history) >= 3
    /\ \A k \in (Len(mode_history) - 2)..Len(mode_history) :
           mode_history[k] = m

\* C20: after three detect_mode calls in a row whose integrated decision is
\* one mode m, the third call returns m, whatever the older entries of the
\* history are.
C20_ThreeInARowDecide ==
    \A m \in {"ir", "color"} :
        (Decided /\ LastThreeAre(m)) => detected[1] = m

\* a full history whose two oldest decisions are "ir" and whose three
\* newest are "color": the call returned "color"
C20_Witness ==
    /\ Decided
    /\ Len(mode_history) = history_size
    /\ mode_history[1] = "ir"
    /\ mode_history[2] = "ir"
    /\ LastThreeAre("color")
    /\ detected[1] = "color"

\* C21: the quality level is decided by the overall score alone, with
\* inclusive lower bounds: >= 0.8 excellent, >= 0.65 good, >= 0.5
\* acceptable, >= 0.3 poor, lower reject; each score has one level, and
\* 0.8 itself is excellent.
C21_LevelOfScore ==
    overall_score # <<>> =>
        LET score == overall_score[1] IN
        /\ quality_level = "excellent" <=> score >= 800
        /\ quality_level = "good" <=> (650 <= score /\ score < 800)
        /\ quality_level = "acceptable" <=> (500 <= score /\ score < 650)
        /\ quality_level = "poor" <=> (300 <= score /\ score < 500)
        /\ quality_level = "reject" <=> score < 300

\* an image whose weighted sum is exactly 0.8 was found excellent
C21_Witness ==
    /\ overall_score = <<800>>
    /\ evaluated_image # <<>>
    /\ evaluated_image[1].readable
    /\ quality_level = "excellent"

\* C22: the background buffer never holds more than 10 frames, and the
\* evaluation of a frame on a full buffer drops the oldest frame and
\* appends the new one.
C22_BackgroundBufferIsFifo ==
    /\ [](Len(background_frames) <= 10)
    /\ [][(evaluated_image'[1].readable /\ Len(background_frames) = 10)
            => background_frames' =
                 Append(Tail(background_frames), evaluated_image'[1].gray)]_vars

\* more frames than the buffer holds were evaluated; the oldest ones are
\* gone and the newest one is the last of the buffer
C22_Witness ==
    /\ total_evaluated = max_background_frames + 2
    /\ Len(background_frames) = max_background_frames
    /\ evaluated_image[1].readable
    /\ background_frames[max_background_frames] = evaluated_image[1].gray
    /\ background_frames[1] # background_frames[max_background_frames]

\* the requests whose image has been written
Persisted == {i \in DOMAIN issued : imageWrites[i] > 0}

\* C23: two distinct persisted requests never have the same file name, so
\* no capture overwrites the image or the sidecar of another one, however
\* close in time two requests of one trigger type are.
C23_DistinctFilenames ==
    \A i, j \in Persisted :
        i # j => GenerateFilename(issued[i].timestamp, issued[i].trigger_type)
                 # GenerateFilename(issued[j].timestamp, issued[j].trigger_type)

\* C26: every request the worker processed has a trigger type among
\* scheduled, motion and manual, so the per-type counters add up to
\* total_captures.
C26_TypeCountersAddUp ==
    /\ \A i \in DOMAIN issued :
           issued[i].trigger_type \in {"scheduled", "motion", "manual"}
    /\ stats.total_captures = stats.motion_triggers
                              + stats.scheduled_triggers
                              + stats.manual_triggers

\* the requests the worker has finished with
Processed ==
    {i \in DOMAIN issued : outcome[i] \notin {"none", "queued", "inflight"}}

\* C29: each processed request is counted once: total_captures is the
\* number of processed requests and the sum of the successful and the
\* failed ones, and successful_captures is the number of success results
\* in the history, whatever on_capture_callback does.
C29_CountedOnce ==
    /\ stats.total_captures = stats.successful_captures + stats.failed_captures
    /\ stats.total_captures = Cardinality(Processed)
    /\ stats.successful_captures =
           Cardinality({k \in DOMAIN capture_history :
                            capture_history[k].success})

\* the scheduled requests, by their place in `issued`
Scheduled == {i \in DOMAIN issued : issued[i].trigger_type = "scheduled"}

\* C24: two scheduled requests are never enqueued less than one capture
\* interval apart, also when the system was stopped and started again
\* in between.
C24_ScheduledOneIntervalApart ==
    \A i, j \in Scheduled :
        i < j => total_seconds_ge(Minus(issued[j].timestamp,
                                        issued[i].timestamp),
                                  interval_minutes * 60)

\* the threads that are inside their loop
LiveWorkers == {t \in Threads : wpc[t] \notin {"unstarted", "dead"}}
LiveMonitors == {t \in Threads : mpc[t] \notin {"unstarted", "dead"}}

\* C28: after any sequence of start() and stop() calls at most one capture
\* worker and at most one motion monitor are executing their loops.
C28_OneThreadOfEachKind ==
    /\ Cardinality(LiveWorkers) <= 1
    /\ Cardinality(LiveMonitors) <= 1

\* C25: two consecutive committed changes of the activity state are at
\* least 30 s apart in the timestamps of their detect_motion calls, and a
\* committed state is "active" or "rest": the state never goes back to
\* "unknown".
C25_TransitionsThirtySecondsApart ==
    [][current_activity_state' # current_activity_state =>
         /\ current_activity_state' \in {"active", "rest"}
         /\ last_activity_change' = md_now'
         /\ current_activity_state # "unknown" =>
                last_activity_change' - last_activity_change >= 30]_vars

\* two changes were committed: to "rest" by the call at 30 s, to "active"
\* by the call at 60 s
C25_Witness ==
    /\ motion_stats.rest_periods = 1
    /\ motion_stats.active_periods = 1
    /\ current_activity_state = "active"
    /\ last_activity_change = 2 * min_state_duration

\* C27: on every frame SimpleLightingDetector.detect_mode returns the mode
\* that estimator 1 of the full detector (_detect_by_rgb_correlation)
\* returns, and its result depends on the frame alone.
C27_SimpleAgreesWithEstimatorOne ==
    simple_frame # <<>> =>
        /\ simple_detected[1] = EstimatorOne(simple_frame[1])[1]
        /\ simple_detected = SimpleDetectMode(simple_frame[1])

\* C30: with the capture worker scheduled fairly, every request accepted
\* by the queue is dequeued and ends as persisted, skipped or failed,
\* unless the system stops running first.
C30_AcceptedIsProcessed ==
    \A i \in RequestIds :
        (outcome[i] = "queued") ~> (outcome[i] \in Finished \/ ~is_running)

\* two requests were accepted and both ended while the system was running
C30_Witness ==
    /\ is_running
    /\ Len(issued) = 2
    /\ outcome[1] \in Finished
    /\ outcome[2] \in Finished

====
